---- MODULE Spec2Model ----
(***************************************************************************)
(* A model of picoCTF-shell/shell_manager/util.py: the name sanitizer, the *)
(* install-path resolvers, the voluptuous schemas with the three loaders,  *)
(* and the two file operations full_copy and move.                         *)
(*                                                                         *)
(* Three specifications share the module:                                  *)
(*   SpecName  sanitize_name, get_problem_root, get_bundle_root            *)
(*   Spec      get_problem, get_bundle, get_config and the schemas         *)
(*   SpecFile  full_copy and move on a small file tree                     *)
(***************************************************************************)
EXTENDS Integers, Sequences, FiniteSets, TLC

VARIABLES
    name,       \* the name handed to the sanitizer / path resolvers
    nameCall,   \* the last call on name and what it returned or raised
    file,       \* the content of the JSON file a loader reads
    loadCall,   \* the last loader call and what it returned or raised
    fs,         \* the file tree: path -> node
    fs0,        \* the file tree as it was when the last file operation began
    fsCall      \* the last file operation, its arguments and its outcome

vars == <<name, nameCall, file, loadCall, fs, fs0, fsCall>>

(***************************************************************************)
(* Strings are sequences of characters; a character is a one-letter string *)
(* (the two code points outside ASCII are written "U+0130", "U+0307").     *)
(***************************************************************************)

\* The longest name the sanitizer is tried on.
MaxNameLen == 3

sep == "/"

LowerLetters ==
    {"a","b","c","d","e","f","g","h","i","j","k","l","m",
     "n","o","p","q","r","s","t","u","v","w","x","y","z"}

\* string.digits
Digits == {"0","1","2","3","4","5","6","7","8","9"}

\* The characters names are drawn from: a lower-case letter, an upper-case
\* letter, a digit, the two punctuation characters the pattern keeps, the
\* path separator, a blank, and LATIN CAPITAL LETTER I WITH DOT ABOVE, whose
\* lower-case form is two code points long.
NameChars == {"a", "Z", "5", "+", "-", "/", " ", "U+0130"}

\* str.lower() on one character.
LowerChar(c) ==
    CASE c = "Z"      -> <<"z">>
      [] c = "U+0130" -> <<"i", "U+0307">>
      [] OTHER        -> <<c>>

\* str.lower()
RECURSIVE Lower(_)
Lower(s) ==
    IF s = <<>> THEN <<>> ELSE LowerChar(Head(s)) \o Lower(Tail(s))

\* The characters the pattern [^a-z0-9\+-] does not match.
KeptChars == LowerLetters \cup Digits \cup {"+", "-"}

\* A sanitizer whose substitution collapses a run of replaced characters.
RECURSIVE ReSubCollapsing(_)
ReSubCollapsing(s) ==
    IF s = <<>> THEN <<>>
    ELSE IF Head(s) \in KeptChars THEN <<Head(s)>> \o ReSubCollapsing(Tail(s))
    ELSE IF Len(s) > 1 /\ s[2] \notin KeptChars THEN ReSubCollapsing(Tail(s))
    ELSE <<"-">> \o ReSubCollapsing(Tail(s))

\* re.sub(r"[^a-z0-9\+-]", "-", s): every match, left to right, becomes "-".
RECURSIVE ReSub(_)
ReSub(s) ==
    IF s = <<>> THEN <<>>
    ELSE (IF Head(s) \in KeptChars THEN <<Head(s)>> ELSE <<"-">>)
         \o ReSub(Tail(s))

Returned(v) == [exc |-> "none", val |-> v]
Raised(e)   == [exc |-> e, val |-> <<>>]

sanitize_name(n) ==
    IF Len(n) = 0
    THEN Raised("Exception")
    ELSE LET sanitized_name == ReSub(Lower(n))
         IN  IF sanitized_name[1] \in Digits
             THEN Returned(<<"p">> \o sanitized_name)
             ELSE Returned(sanitized_name)

\* A join that forgets the separator between the components.
JoinNoSep(a, b) ==
    IF b # <<>> /\ b[1] = sep THEN b ELSE a \o b

\* os.path.join (posixpath) on two components.
Join(a, b) ==
    IF b # <<>> /\ b[1] = sep THEN b
    ELSE IF a = <<>> \/ a[Len(a)] = sep THEN a \o b
    ELSE a \o <<sep>> \o b

HACKSPORTS_ROOT ==
    <<"/","o","p","t","/","h","a","c","k","s","p","o","r","t","s","/">>

PROBLEM_ROOT == Join(HACKSPORTS_ROOT, <<"s","o","u","r","c","e","s">>)

BUNDLE_ROOT == Join(HACKSPORTS_ROOT, <<"b","u","n","d","l","e","s">>)

\* problem_root[len(sep):] is Tail(problem_root): sep is one character long.
get_problem_root(problem_name, absolute) ==
    LET s == sanitize_name(problem_name)
    IN  IF s.exc # "none" THEN s
        ELSE LET problem_root == Join(PROBLEM_ROOT, s.val)
             IN  IF problem_root[1] # sep THEN Raised("AssertionError")
                 ELSE IF absolute THEN Returned(problem_root)
                 ELSE Returned(Tail(problem_root))

get_bundle_root(bundle_name, absolute) ==
    LET s == sanitize_name(bundle_name)
    IN  IF s.exc # "none" THEN s
        ELSE LET bundle_root == Join(BUNDLE_ROOT, s.val)
             IN  IF bundle_root[1] # sep THEN Raised("AssertionError")
                 ELSE IF absolute THEN Returned(bundle_root)
                 ELSE Returned(Tail(bundle_root))

RECURSIVE SeqsUpTo(_, _)
SeqsUpTo(S, n) ==
    IF n = 0 THEN {<<>>}
    ELSE LET shorter == SeqsUpTo(S, n - 1)
         IN  shorter \cup {Append(s, c) : s \in shorter, c \in S}

Names == SeqsUpTo(NameChars, MaxNameLen)

NoNameCall == [fn |-> "none", absolute |-> FALSE, exc |-> "none", val |-> <<>>]

NameCallOf(fn, absolute, r) ==
    [fn |-> fn, absolute |-> absolute, exc |-> r.exc, val |-> r.val]

(***************************************************************************)
(* JSON values as json.loads builds them.  A value is a record: t is its   *)
(* Python type, n is the length of a str or the number an int or bool      *)
(* holds, items are the elements of a list (a sequence) or the entries of  *)
(* a dict (a function from keys to values).                                *)
(***************************************************************************)

JStr(len)    == [t |-> "str",   n |-> len, items |-> <<>>]
JInt(v)      == [t |-> "int",   n |-> v,   items |-> <<>>]
JBool(b)     == [t |-> "bool",  n |-> IF b THEN 1 ELSE 0, items |-> <<>>]
JNull        == [t |-> "null",  n |-> 0,   items |-> <<>>]
JList(elems) == [t |-> "list",  n |-> 0,   items |-> elems]
JDict(f)     == [t |-> "dict",  n |-> 0,   items |-> f]

NoEntries == << >>

\* The entries f restricted to the keys in keys.
RECURSIVE Restrict(_, _)
Restrict(f, keys) ==
    IF keys = {} THEN NoEntries
    ELSE LET k == CHOOSE j \in keys : TRUE
         IN  (k :> f[k]) @@ Restrict(f, keys \ {k})

\* The dict d with key k set to v / with key k removed.
DictPut(d, k, v) == JDict((k :> v) @@ d.items)

DictDel(d, k) == JDict(Restrict(d.items, (DOMAIN d.items) \ {k}))

(***************************************************************************)
(* voluptuous.  A validator is a record: type is the Python type the value *)
(* must be an instance of, kind says whether All(...) adds Length or       *)
(* Range, with the bounds it gives (an absent bound is hasMin/hasMax       *)
(* FALSE).                                                                 *)
(***************************************************************************)

Type(ty) ==
    [type |-> ty, kind |-> "none",
     hasMin |-> FALSE, min |-> 0, hasMax |-> FALSE, max |-> 0]

AllLength(ty, lo, hi) ==
    [type |-> ty, kind |-> "Length",
     hasMin |-> TRUE, min |-> lo, hasMax |-> TRUE, max |-> hi]

AllRangeMin(ty, lo) ==
    [type |-> ty, kind |-> "Range",
     hasMin |-> TRUE, min |-> lo, hasMax |-> FALSE, max |-> 0]

AllRange(ty, lo, hi) ==
    [type |-> ty, kind |-> "Range",
     hasMin |-> TRUE, min |-> lo, hasMax |-> TRUE, max |-> hi]

\* isinstance(v, ty): bool is a subclass of int.
IsInstance(v, ty) ==
    \/ v.t = ty
    \/ ty = "int" /\ v.t = "bool"

\* A bounds check that takes the upper bound as exclusive.
InBoundsExclusiveMax(x, val) ==
    /\ val.hasMin => x >= val.min
    /\ val.hasMax => x < val.max

\* Length(min, max) on len(v), Range(min, max) on v: both bounds inclusive.
InBounds(x, val) ==
    /\ val.hasMin => x >= val.min
    /\ val.hasMax => x <= val.max

\* One validator on one value: the type first, then (All) the bound.
ValueValid(v, val) ==
    /\ IsInstance(v, val.type)
    /\ val.kind # "none" => InBounds(v.n, val)

\* Schema({...}, extra)(data) raises no MultipleInvalid: data is a dict, each
\* of its keys the schema lists carries a valid value, a key the schema does
\* not list is allowed only with extra, and no Required key is missing.
SchemaValid(schema, data) ==
    /\ data.t = "dict"
    /\ \A k \in DOMAIN data.items :
          IF k \in DOMAIN schema.fields
          THEN ValueValid(data.items[k], schema.fields[k])
          ELSE schema.extra
    /\ schema.required \subseteq DOMAIN data.items

problem_schema ==
    [required |-> {"author", "score", "name", "description", "category", "hints"},
     extra    |-> FALSE,
     fields   |->
        [author           |-> AllLength("str", 1, 32),
         score            |-> AllRangeMin("int", 0),
         name             |-> AllLength("str", 1, 32),
         description      |-> Type("str"),
         category         |-> AllLength("str", 1, 32),
         hints            |-> Type("list"),
         version          |-> AllLength("str", 1, 8),
         tags             |-> Type("list"),
         organization     |-> AllLength("str", 1, 32),
         pkg_description  |-> AllLength("str", 1, 256),
         pkg_name         |-> AllLength("str", 1, 32),
         pkg_dependencies |-> Type("list"),
         pip_requirements |-> Type("list")]]

bundle_schema ==
    [required |-> {"author", "problems", "name", "description", "categories"},
     extra    |-> FALSE,
     fields   |->
        [author           |-> AllLength("str", 1, 32),
         problems         |-> Type("list"),
         name             |-> AllLength("str", 1, 32),
         description      |-> Type("str"),
         categories       |-> Type("list"),
         version          |-> AllLength("str", 1, 8),
         tags             |-> Type("list"),
         organization     |-> AllLength("str", 1, 32),
         dependencies     |-> Type("dict"),
         pkg_dependencies |-> Type("list")]]

config_schema ==
    [required |-> {"deploy_secret", "hostname", "web_server", "default_user",
                   "web_root", "problem_directory_root",
                   "obfuscate_problem_directories", "banned_ports"},
     extra    |-> TRUE,
     fields   |->
        [deploy_secret                 |-> Type("str"),
         hostname                      |-> Type("str"),
         web_server                    |-> Type("str"),
         default_user                  |-> Type("str"),
         web_root                      |-> Type("str"),
         problem_directory_root        |-> Type("str"),
         obfuscate_problem_directories |-> Type("bool"),
         banned_ports                  |-> Type("list")]]

port_range_schema ==
    [required |-> {"start", "end"},
     extra    |-> FALSE,
     fields   |->
        [start |-> AllRange("int", 0, 66635),
         end   |-> AllRange("int", 0, 66635)]]

(***************************************************************************)
(* The loaders.  A file is [name, ok, value]: the file name the loader     *)
(* opens, whether json.loads parses its text, and the value it parses to.  *)
(* A loader's outcome is [fn, exc, kind, ret, attrs, examined]: exc is the *)
(* exception that leaves it ("none": it returned), kind is what it         *)
(* returned ("mapping": the parsed dict ret itself, "object": an object    *)
(* with attributes attrs), examined counts the banned_ports entries the    *)
(* port-range loop has reached.                                            *)
(***************************************************************************)

NoLoad ==
    [fn |-> "none", exc |-> "none", kind |-> "none", ret |-> JNull,
     attrs |-> NoEntries, examined |-> 0]

LoadRaised(fn, e, examined) ==
    [fn |-> fn, exc |-> e, kind |-> "none", ret |-> JNull,
     attrs |-> NoEntries, examined |-> examined]

LoadMapping(fn, d) ==
    [fn |-> fn, exc |-> "none", kind |-> "mapping", ret |-> d,
     attrs |-> NoEntries, examined |-> 0]

LoadObject(fn, obj, examined) ==
    [fn |-> fn, exc |-> "none", kind |-> "object", ret |-> JNull,
     attrs |-> obj.attrs, examined |-> examined]

\* json.loads is outside every try block: its error leaves the loader as it is.
get_problem(f) ==
    IF ~f.ok THEN LoadRaised("get_problem", "JSONDecodeError", 0)
    ELSE IF ~SchemaValid(problem_schema, f.value)
         THEN LoadRaised("get_problem", "FatalException", 0)
    ELSE LoadMapping("get_problem", f.value)

get_bundle(f) ==
    IF ~f.ok THEN LoadRaised("get_bundle", "JSONDecodeError", 0)
    ELSE IF ~SchemaValid(bundle_schema, f.value)
         THEN LoadRaised("get_bundle", "FatalException", 0)
    ELSE LoadMapping("get_bundle", f.value)

\* A port-range loop that goes through every entry before it raises.
RECURSIVE PortLoopAggregate(_, _)
PortLoopAggregate(ports, i) ==
    IF i > Len(ports) THEN [exc |-> "none", examined |-> Len(ports)]
    ELSE LET rest == PortLoopAggregate(ports, i + 1)
             bad  == \/ ~SchemaValid(port_range_schema, ports[i])
                     \/ ~(ports[i].items["start"].n <= ports[i].items["end"].n)
         IN  IF bad THEN [exc |-> "FatalException", examined |-> rest.examined]
             ELSE rest

\* for port_range in config_object["banned_ports"], from entry i on: the
\* schema, then the assert, each raising FatalException on the spot.
RECURSIVE PortLoop(_, _)
PortLoop(ports, i) ==
    IF i > Len(ports) THEN [exc |-> "none", examined |-> Len(ports)]
    ELSE IF ~SchemaValid(port_range_schema, ports[i])
         THEN [exc |-> "FatalException", examined |-> i]
    ELSE IF ~(ports[i].items["start"].n <= ports[i].items["end"].n)
         THEN [exc |-> "FatalException", examined |-> i]
    ELSE PortLoop(ports, i + 1)

\* object(): an instance of object itself has no __dict__, so it takes no
\* new attribute.
NewObject == [settable |-> FALSE, attrs |-> NoEntries]

\* obj.__setattr__(key, value)
SetAttr(obj, key, value) ==
    IF obj.settable
    THEN [exc |-> "none",
          obj |-> [obj EXCEPT !.attrs = (key :> value) @@ obj.attrs]]
    ELSE [exc |-> "AttributeError", obj |-> obj]

\* for key, value in config_object.items(): config.__setattr__(key, value),
\* over the keys not yet visited.
RECURSIVE SetAttrs(_, _, _)
SetAttrs(obj, d, keys) ==
    IF keys = {} THEN [exc |-> "none", obj |-> obj]
    ELSE LET key  == CHOOSE k \in keys : TRUE
             step == SetAttr(obj, key, d.items[key])
         IN  IF step.exc # "none" THEN step
             ELSE SetAttrs(step.obj, d, keys \ {key})

get_config(f) ==
    IF ~f.ok THEN LoadRaised("get_config", "JSONDecodeError", 0)
    ELSE IF ~SchemaValid(config_schema, f.value)
         THEN LoadRaised("get_config", "FatalException", 0)
    ELSE LET config_object == f.value
             loop == PortLoop(config_object.items["banned_ports"].items, 1)
         IN  IF loop.exc # "none"
             THEN LoadRaised("get_config", loop.exc, loop.examined)
             ELSE LET set == SetAttrs(NewObject, config_object,
                                      DOMAIN config_object.items)
                  IN  IF set.exc # "none"
                      THEN LoadRaised("get_config", set.exc, loop.examined)
                      ELSE LoadObject("get_config", set.obj, loop.examined)

(***************************************************************************)
(* The files the loaders are tried on: a valid problem, bundle or config   *)
(* with up to MaxEdits of its top-level keys set to a sample value or      *)
(* removed (a key no schema lists among them), configs whose banned_ports  *)
(* is any list of up to MaxPorts sample entries, documents that are not a  *)
(* JSON object, and text that is not JSON.                                 *)
(***************************************************************************)

\* How many top-level keys of a valid document are changed.
MaxEdits == 1

\* The longest banned_ports list.
MaxPorts == 2

EmptyList == JList(<<>>)
EmptyDict == JDict(NoEntries)

\* str at each side of every Length bound, int at each side of Range(min=0),
\* and one value of each other JSON type.
SampleValues ==
    {JStr(0), JStr(1), JStr(8), JStr(9), JStr(32), JStr(33), JStr(256), JStr(257),
     JInt(-1), JInt(0), JBool(TRUE), JNull, EmptyList, EmptyDict}

UnknownKey == "unknown_key"

ProblemMin ==
    JDict([author |-> JStr(1), score |-> JInt(0), name |-> JStr(1),
           description |-> JStr(0), category |-> JStr(1), hints |-> EmptyList])

ProblemFull ==
    JDict([author |-> JStr(32), score |-> JInt(0), name |-> JStr(32),
           description |-> JStr(257), category |-> JStr(32), hints |-> EmptyList,
           version |-> JStr(8), tags |-> EmptyList, organization |-> JStr(32),
           pkg_description |-> JStr(256), pkg_name |-> JStr(32),
           pkg_dependencies |-> EmptyList, pip_requirements |-> EmptyList])

BundleMin ==
    JDict([author |-> JStr(1), problems |-> EmptyList, name |-> JStr(1),
           description |-> JStr(0), categories |-> EmptyList])

PortRange(start, end) == JDict([start |-> start, end |-> end])

ConfigWith(ports) ==
    JDict([deploy_secret |-> JStr(8), hostname |-> JStr(8), web_server |-> JStr(8),
           default_user |-> JStr(8), web_root |-> JStr(8),
           problem_directory_root |-> JStr(8),
           obfuscate_problem_directories |-> JBool(FALSE),
           banned_ports |-> JList(ports)])

ConfigMin == ConfigWith(<<PortRange(JInt(50), JInt(100))>>)

\* A key that is not there.
Absent == [t |-> "absent", n |-> 0, items |-> <<>>]

\* An edit <<k, v>> sets key k to the sample value v, or removes k (v Absent).
Edits(keys) == {<<k, v>> : k \in keys, v \in SampleValues \cup {Absent}}

\* The document d after the edits es, made one after the other.
RECURSIVE Edited(_, _)
Edited(d, es) ==
    IF es = <<>> THEN d
    ELSE LET e == Head(es)
         IN  Edited(IF e[2] = Absent THEN DictDel(d, e[1])
                    ELSE DictPut(d, e[1], e[2]),
                    Tail(es))

\* start and end: absent, each side of both Range bounds, a str, a bool.
PortValues ==
    {Absent, JInt(-1), JInt(0), JInt(66635), JInt(66636), JStr(1), JBool(TRUE)}

PortEntry(start, end) ==
    JDict((IF start = Absent THEN NoEntries ELSE "start" :> start)
          @@ (IF end = Absent THEN NoEntries ELSE "end" :> end))

PortEntries ==
    {PortEntry(a, b) : a \in PortValues, b \in PortValues}
        \cup {DictPut(PortRange(JInt(0), JInt(0)), UnknownKey, JInt(0)), JInt(0)}

ProblemBases == {ProblemMin, ProblemFull}
ProblemKeys  == (DOMAIN problem_schema.fields) \cup {UnknownKey}
BundleBases  == {BundleMin}
BundleKeys   == (DOMAIN bundle_schema.fields) \cup {UnknownKey}
ConfigBases  == {ConfigMin}
ConfigKeys   == (DOMAIN config_schema.fields) \cup {UnknownKey}

\* JSON documents that are not an object.
NonObjects == {JNull, EmptyList, JStr(1)}

FileNames == {"problem.json", "bundle.json", "config.json"}

Unparseable(nm) == [name |-> nm, ok |-> FALSE, value |-> JNull]
Parsed(nm, v)   == [name |-> nm, ok |-> TRUE, value |-> v]

(***************************************************************************)
(* The file tree.  A path is the sequence of its segments below "/" ; the  *)
(* tree maps every path of the universe to "absent", "dir" or, for a       *)
(* regular file, its content.  "/" itself always exists.                   *)
(***************************************************************************)

\* How many files and directories the tree holds when an operation begins.
MaxNodes == 5

FsRoots  == {"s", "d"}
FsNames  == {"a", "b"}
Contents == {"x", "y"}

RootPaths == {<<r>> : r \in FsRoots}
ItemPaths == {<<r, f>> : r \in FsRoots, f \in FsNames}
LeafPaths == {<<r, f, g>> : r \in FsRoots, f \in FsNames, g \in FsNames}
AllPaths  == RootPaths \cup ItemPaths \cup LeafPaths

Last(p)   == p[Len(p)]
Parent(p) == SubSeq(p, 1, Len(p) - 1)

\* p is q or lies above q.
IsPrefix(p, q) == Len(p) <= Len(q) /\ SubSeq(q, 1, Len(p)) = p

\* The path q, which lies at or below from, carried over to lie below to.
Rebase(q, from, to) == to \o SubSeq(q, Len(from) + 1, Len(q))

Lookup(f, p) == IF p \in DOMAIN f THEN f[p] ELSE "absent"

exists(f, p) == Lookup(f, p) # "absent"
isdir(f, p)  == Lookup(f, p) = "dir"
isfile(f, p) == Lookup(f, p) \in Contents

ParentIsDir(f, p) == Len(p) = 1 \/ isdir(f, Parent(p))

\* The error open() gives for a path that is not there: a regular file on
\* the way to it makes it NotADirectoryError.
OpenError(f, p) ==
    IF \E i \in 1..(Len(p) - 1) : isfile(f, SubSeq(p, 1, i))
    THEN "NotADirectoryError" ELSE "FileNotFoundError"

\* os.listdir(p), as a set.
listdir(f, p) == {g \in FsNames : exists(f, p \o <<g>>)}

FsOk(f)     == [exc |-> "none", fs |-> f]
FsErr(e, f) == [exc |-> e, fs |-> f]

\* os.unlink(p) on a regular file.
unlink(f, p) == [f EXCEPT ![p] = "absent"]

\* shutil.copytree(src, dst): os.makedirs(dst), which creates a missing
\* parent and fails on an existing dst, then everything below src.
copytree(f, src, dst) ==
    IF exists(f, dst) THEN FsErr("FileExistsError", f)
    ELSE IF Len(dst) > 1 /\ isfile(f, Parent(dst))
         THEN FsErr("NotADirectoryError", f)
    ELSE FsOk([q \in AllPaths |->
                 IF q = dst \/ (q = Parent(dst) /\ Len(dst) > 1) THEN "dir"
                 ELSE IF IsPrefix(dst, q) THEN Lookup(f, Rebase(q, dst, src))
                 ELSE f[q]])

\* shutil.copy2(src, dst): into dst when dst is a directory, onto dst
\* otherwise; the source is opened before the target.
copy2(f, src, dst) ==
    LET target == IF isdir(f, dst) THEN dst \o <<Last(src)>> ELSE dst
    IN  IF isfile(f, src) /\ target = src THEN FsErr("SameFileError", f)
        ELSE IF ~exists(f, src) THEN FsErr(OpenError(f, src), f)
        ELSE IF isdir(f, src) \/ isdir(f, target)
             THEN FsErr("IsADirectoryError", f)
        ELSE IF ~ParentIsDir(f, target) THEN FsErr(OpenError(f, target), f)
        ELSE FsOk([f EXCEPT ![target] = f[src]])

\* The loop of full_copy from entry i of the listing on.
RECURSIVE FullCopyFrom(_, _, _, _, _, _)
FullCopyFrom(f, source, destination, ignore, order, i) ==
    IF i > Len(order) THEN FsOk(f)
    ELSE LET source_item      == source \o <<order[i]>>
             destination_item == destination \o <<order[i]>>
             step ==
                IF order[i] \in ignore THEN FsOk(f)
                ELSE IF isdir(f, source_item)
                     THEN IF ~isdir(f, destination_item)
                          THEN copytree(f, source_item, destination_item)
                          ELSE FsOk(f)
                ELSE copy2(f, source_item, destination_item)
         IN  IF step.exc # "none" THEN step
             ELSE FullCopyFrom(step.fs, source, destination, ignore, order, i + 1)

\* full_copy(source, destination, ignore), with order the listing os.listdir
\* gives (it fails when source is no directory).
full_copy(f, source, destination, ignore, order) ==
    IF ~exists(f, source) THEN FsErr(OpenError(f, source), f)
    ELSE IF ~isdir(f, source) THEN FsErr("NotADirectoryError", f)
    ELSE FullCopyFrom(f, source, destination, ignore, order, 1)

\* os.rename(src, dst) where it succeeds: src and all below it now at dst.
rename(f, src, dst) ==
    [q \in AllPaths |->
        IF IsPrefix(dst, q) THEN Lookup(f, Rebase(q, dst, src))
        ELSE IF IsPrefix(src, q) THEN "absent"
        ELSE f[q]]

\* The tail of shutil.move: os.rename(src, real_dst) and, on OSError, the
\* copy-then-delete fallback (copytree for a directory, copy2 for a file).
RenameOrCopy(f, src, real_dst) ==
    IF ~exists(f, src) THEN copy2(f, src, real_dst)
    ELSE IF ~exists(f, real_dst) \/ (isfile(f, src) /\ isfile(f, real_dst))
         THEN FsOk(rename(f, src, real_dst))
    ELSE IF isdir(f, src) THEN copytree(f, src, real_dst)
    ELSE LET c == copy2(f, src, real_dst)
         IN  IF c.exc # "none" THEN c ELSE FsOk(unlink(c.fs, src))

\* shutil.move(src, dst)
shutil_move(f, src, dst) ==
    IF isdir(f, dst)
    THEN IF src = dst THEN FsOk(f)
         ELSE LET real_dst == dst \o <<Last(src)>>
              IN  IF exists(f, real_dst) THEN FsErr("Error", f)
                  ELSE RenameOrCopy(f, src, real_dst)
    ELSE RenameOrCopy(f, src, dst)

\* move(source, destination, clobber); source holds a separator, so
\* file_name is its last segment.
move(f, source, destination, clobber) ==
    LET file_name == Last(source)
        new_path  == destination \o <<file_name>>
        cleared   == IF clobber /\ isfile(f, new_path) THEN unlink(f, new_path)
                     ELSE f
    IN  shutil_move(cleared, source, destination)

\* The trees an operation may start from: up to MaxNodes files and
\* directories, each inside a directory.
EmptyFs == [q \in AllPaths |-> "absent"]

Grow(f) ==
    {[f EXCEPT ![p] = k] :
        p \in {q \in AllPaths : ~exists(f, q) /\ ParentIsDir(f, q)},
        k \in {"dir"} \cup Contents}

RECURSIVE TreesUpTo(_)
TreesUpTo(n) ==
    IF n = 0 THEN {EmptyFs}
    ELSE LET smaller == TreesUpTo(n - 1)
         IN  smaller \cup UNION {Grow(f) : f \in smaller}

\* The orders os.listdir may give the entries of directory p in.
Listings(f, p) ==
    LET S == listdir(f, p)
    IN  {o \in SeqsUpTo(S, Cardinality(S)) :
            Len(o) = Cardinality(S) /\ \A g \in S : \E i \in 1..Len(o) : o[i] = g}

NoFsCall ==
    [op |-> "none", source |-> <<>>, destination |-> <<>>, ignore |-> {},
     clobber |-> FALSE, exc |-> "none"]

(***************************************************************************)
(* The three specifications.                                               *)
(***************************************************************************)

NameIdle == name = <<>> /\ nameCall = NoNameCall
LoadIdle == file = Unparseable("config.json") /\ loadCall = NoLoad
FileIdle == fs = EmptyFs /\ fs0 = EmptyFs /\ fsCall = NoFsCall

\* ---- SpecName: the sanitizer and the path resolvers on one name ----

InitName ==
    /\ name \in Names
    /\ nameCall = NoNameCall
    /\ LoadIdle
    /\ FileIdle

SanitizeName ==
    /\ nameCall' = NameCallOf("sanitize_name", FALSE, sanitize_name(name))
    /\ UNCHANGED <<name, file, loadCall, fs, fs0, fsCall>>

GetProblemRoot ==
    /\ \E absolute \in BOOLEAN :
          nameCall' = NameCallOf("get_problem_root", absolute,
                                 get_problem_root(name, absolute))
    /\ UNCHANGED <<name, file, loadCall, fs, fs0, fsCall>>

GetBundleRoot ==
    /\ \E absolute \in BOOLEAN :
          nameCall' = NameCallOf("get_bundle_root", absolute,
                                 get_bundle_root(name, absolute))
    /\ UNCHANGED <<name, file, loadCall, fs, fs0, fsCall>>

NextName == SanitizeName \/ GetProblemRoot \/ GetBundleRoot

SpecName == InitName /\ [][NextName]_vars

\* ---- Spec: each loader on the file it opens ----

Init ==
    /\ \/ \E nm \in FileNames : file = Unparseable(nm)
       \/ \E nm \in FileNames, v \in NonObjects : file = Parsed(nm, v)
       \/ \E d \in ProblemBases, es \in SeqsUpTo(Edits(ProblemKeys), MaxEdits) :
             file = Parsed("problem.json", Edited(d, es))
       \/ \E d \in BundleBases, es \in SeqsUpTo(Edits(BundleKeys), MaxEdits) :
             file = Parsed("bundle.json", Edited(d, es))
       \/ \E d \in ConfigBases, es \in SeqsUpTo(Edits(ConfigKeys), MaxEdits) :
             file = Parsed("config.json", Edited(d, es))
       \/ \E ports \in SeqsUpTo(PortEntries, MaxPorts) :
             file = Parsed("config.json", ConfigWith(ports))
    /\ loadCall = NoLoad
    /\ NameIdle
    /\ FileIdle

GetProblem ==
    /\ file.name = "problem.json"
    /\ loadCall' = get_problem(file)
    /\ UNCHANGED <<name, nameCall, file, fs, fs0, fsCall>>

GetBundle ==
    /\ file.name = "bundle.json"
    /\ loadCall' = get_bundle(file)
    /\ UNCHANGED <<name, nameCall, file, fs, fs0, fsCall>>

GetConfig ==
    /\ file.name = "config.json"
    /\ loadCall' = get_config(file)
    /\ UNCHANGED <<name, nameCall, file, fs, fs0, fsCall>>

Next == GetProblem \/ GetBundle \/ GetConfig

Spec == Init /\ [][Next]_vars

\* ---- SpecFile: one file operation on a tree ----

InitFile ==
    /\ fs \in TreesUpTo(MaxNodes)
    /\ fs0 = fs
    /\ fsCall = NoFsCall
    /\ NameIdle
    /\ LoadIdle

FullCopy ==
    /\ fsCall.op = "none"
    /\ \E source \in RootPaths, destination \in RootPaths,
          ignore \in SUBSET FsNames :
       \E order \in Listings(fs, source) :
          LET r == full_copy(fs, source, destination, ignore, order)
          IN  /\ fs' = r.fs
              /\ fsCall' = [op |-> "full_copy", source |-> source,
                            destination |-> destination, ignore |-> ignore,
                            clobber |-> FALSE, exc |-> r.exc]
    /\ UNCHANGED <<name, nameCall, file, loadCall, fs0>>

Move ==
    /\ fsCall.op = "none"
    /\ \E source \in ItemPaths \cup LeafPaths, destination \in RootPaths,
          clobber \in BOOLEAN :
          LET r == move(fs, source, destination, clobber)
          IN  /\ fs' = r.fs
              /\ fsCall' = [op |-> "move", source |-> source,
                            destination |-> destination, ignore |-> {},
                            clobber |-> clobber, exc |-> r.exc]
    /\ UNCHANGED <<name, nameCall, file, loadCall, fs0>>

NextFile == FullCopy \/ Move

SpecFile == InitFile /\ [][NextFile]_vars

(***************************************************************************)
(* The claims.  What a claim calls an integer is an int in Python's sense: *)
(* json.loads gives true and false as bool, a subclass of int, so they     *)
(* count as the integers 1 and 0.                                          *)
(***************************************************************************)

IsInteger(v) == v.t \in {"int", "bool"}

\* ---- the sanitizer and the path resolvers (SpecName) ----

\* The string the sanitizer is said to return for a non-empty name n: n in
\* lower case with every character outside [a-z0-9+-] replaced, position by
\* position, by "-", and "p" put in front when that starts with a digit.
SanitizedForm(n) ==
    LET lowered  == Lower(n)
        replaced == [i \in 1..Len(lowered) |->
                        IF lowered[i] \in KeptChars THEN lowered[i] ELSE "-"]
    IN  IF replaced[1] \in Digits THEN <<"p">> \o replaced ELSE replaced

\* C4: sanitize_name raises exactly for the empty name; for any other name
\* it returns the lower-cased name with each character outside [a-z0-9+-]
\* replaced one for one by "-" (as long as the lower-cased name, nothing
\* collapsed), prefixed with "p" exactly when that starts with a digit; the
\* result matches ^[a-z0-9+-]+$ and does not start with a digit.
C4_Sanitize ==
    nameCall.fn = "sanitize_name" =>
        /\ (nameCall.exc # "none") <=> (name = <<>>)
        /\ name # <<>> =>
              LET digitLed == Lower(name)[1] \in Digits
              IN  /\ nameCall.val = SanitizedForm(name)
                  /\ Len(nameCall.val)
                        = Len(Lower(name)) + (IF digitLed THEN 1 ELSE 0)
                  /\ (nameCall.val[1] = "p" /\ Len(nameCall.val) > Len(Lower(name)))
                        <=> digitLed
                  /\ Len(nameCall.val) >= 1
                  /\ \A i \in 1..Len(nameCall.val) : nameCall.val[i] \in KeptChars
                  /\ nameCall.val[1] \notin Digits

\* A digit-led name with two replaced characters in a row has been sanitized.
C4_Witness ==
    /\ nameCall.fn = "sanitize_name"
    /\ name = <<"5", " ", "/">>
    /\ nameCall.val = <<"p", "5", "-", "-">>

\* C7: for a non-empty name, get_problem_root and get_bundle_root with
\* absolute=True return PROBLEM_ROOT (BUNDLE_ROOT), the separator and the
\* sanitized name, a path that starts with the separator; with
\* absolute=False they return that path without its first character.
C7_InstallRoots ==
    (nameCall.fn \in {"get_problem_root", "get_bundle_root"} /\ name # <<>>) =>
        LET problem == nameCall.fn = "get_problem_root"
            root == IF problem THEN PROBLEM_ROOT ELSE BUNDLE_ROOT
            full == root \o <<sep>> \o SanitizedForm(name)
        IN  /\ root = IF problem
                      THEN <<"/","o","p","t","/","h","a","c","k","s","p","o",
                             "r","t","s","/","s","o","u","r","c","e","s">>
                      ELSE <<"/","o","p","t","/","h","a","c","k","s","p","o",
                             "r","t","s","/","b","u","n","d","l","e","s">>
            /\ nameCall.exc = "none"
            /\ full[1] = sep
            /\ nameCall.absolute => nameCall.val = full
            /\ ~nameCall.absolute => nameCall.val = Tail(full)

\* A relative bundle root has been computed for a name holding a separator.
C7_Witness ==
    /\ nameCall.fn = "get_bundle_root"
    /\ ~nameCall.absolute
    /\ name = <<"Z", "/", "5">>
    /\ nameCall.exc = "none"
    /\ nameCall.val[1] = "o"
    /\ nameCall.val[Len(nameCall.val)] = "5"

\* ---- the schemas and the loaders (Spec) ----

\* v is a str of lo to hi characters.
IsStrOf(v, lo, hi) == v.t = "str" /\ lo <= v.n /\ v.n <= hi

\* A banned_ports entry breaks the PortRange data model: it is no mapping,
\* start or end is missing, is no integer or lies outside [0, 66635], a key
\* other than start and end is present, or start > end.
PortEntryViolates(e) ==
    IF e.t # "dict" THEN TRUE
    ELSE IF ~({"start", "end"} \subseteq DOMAIN e.items) THEN TRUE
    ELSE LET start == e.items["start"]
             end   == e.items["end"]
         IN  \/ DOMAIN e.items # {"start", "end"}
             \/ ~IsInteger(start) \/ ~IsInteger(end)
             \/ start.n < 0 \/ start.n > 66635
             \/ end.n < 0 \/ end.n > 66635
             \/ start.n > end.n

\* The position of the first violating entry of ports, 0 when there is none.
FirstViolation(ports) ==
    IF \E i \in 1..Len(ports) : PortEntryViolates(ports[i])
    THEN CHOOSE i \in 1..Len(ports) :
            /\ PortEntryViolates(ports[i])
            /\ \A j \in 1..(i - 1) : ~PortEntryViolates(ports[j])
    ELSE 0

\* The file holds a JSON object that passes config_schema.
PassesConfigSchema == file.ok /\ SchemaValid(config_schema, file.value)

\* C3: for a config that passes config_schema, get_config goes through
\* banned_ports in list order and raises FatalException at the first entry
\* that fails port_range_schema or has start > end, examining no entry after
\* it; a list without a violating entry is examined to its end and draws no
\* FatalException.
C3_PortRangeCheck ==
    (loadCall.fn = "get_config" /\ PassesConfigSchema) =>
        LET ports == file.value.items["banned_ports"].items
            first == FirstViolation(ports)
        IN  IF first > 0
            THEN loadCall.exc = "FatalException" /\ loadCall.examined = first
            ELSE loadCall.exc # "FatalException" /\ loadCall.examined = Len(ports)

\* get_config has stopped at the first of two violating entries.
C3_Witness ==
    /\ loadCall.fn = "get_config"
    /\ PassesConfigSchema
    /\ Len(file.value.items["banned_ports"].items) = 2
    /\ file.value.items["banned_ports"].items[1] = PortRange(JInt(66635), JInt(0))
    /\ PortEntryViolates(file.value.items["banned_ports"].items[2])
    /\ loadCall.exc = "FatalException"
    /\ loadCall.examined = 1

\* C1: get_config, on a config that passes config_schema and whose
\* banned_ports entries are all valid port ranges with start <= end, raises
\* nothing and returns an object with one attribute per top-level key, each
\* holding the key's JSON value.
C1_ConfigObject ==
    (/\ loadCall.fn = "get_config"
     /\ PassesConfigSchema
     /\ FirstViolation(file.value.items["banned_ports"].items) = 0) =>
        /\ loadCall.exc = "none"
        /\ loadCall.kind = "object"
        /\ DOMAIN loadCall.attrs = DOMAIN file.value.items
        /\ \A k \in DOMAIN file.value.items :
              loadCall.attrs[k] = file.value.items[k]

\* The schema the loader fn validates against.
SchemaOf(fn) ==
    CASE fn = "get_problem" -> problem_schema
      [] fn = "get_bundle"  -> bundle_schema
      [] fn = "get_config"  -> config_schema

\* C2: when the file a loader reads is not parseable JSON, or parses to a
\* value that fails the loader's schema, the error that leaves the loader is
\* FatalException.
C2_OnlyFatal ==
    (/\ loadCall.fn # "none"
     /\ \/ ~file.ok
        \/ ~SchemaValid(SchemaOf(loadCall.fn), file.value)) =>
        loadCall.exc = "FatalException"

\* The document d carries the unknown key and is valid for schema without it.
ValidButForUnknownKey(schema, d) ==
    /\ d.t = "dict"
    /\ UnknownKey \in DOMAIN d.items
    /\ UnknownKey \notin DOMAIN schema.fields
    /\ SchemaValid(schema, DictDel(d, UnknownKey))

\* C6: an unknown top-level key added to an otherwise valid config leaves it
\* accepted by get_config, with the key kept in the result; added to an
\* otherwise valid problem.json or bundle.json it makes the loader reject
\* the file.
C6_UnknownKeys ==
    /\ (/\ loadCall.fn = "get_config"
        /\ file.ok
        /\ ValidButForUnknownKey(config_schema, file.value)
        /\ FirstViolation(file.value.items["banned_ports"].items) = 0) =>
           /\ loadCall.exc = "none"
           /\ UnknownKey \in DOMAIN loadCall.attrs
           /\ loadCall.attrs[UnknownKey] = file.value.items[UnknownKey]
    /\ (/\ loadCall.fn \in {"get_problem", "get_bundle"}
        /\ file.ok
        /\ ValidButForUnknownKey(SchemaOf(loadCall.fn), file.value)) =>
           loadCall.exc = "FatalException"

\* The ProblemSpec data model on a mapping d, with pkgMin the least length
\* of pkg_description: the six required fields present, every field present
\* within its bound, and no other key.
ProblemSpecHolds(d, pkgMin) ==
    LET has(k) == k \in DOMAIN d.items
        v(k)   == d.items[k]
    IN  /\ \A k \in {"author", "name", "category"} :
              has(k) /\ IsStrOf(v(k), 1, 32)
        /\ has("score") /\ IsInteger(v("score")) /\ v("score").n >= 0
        /\ has("description") /\ v("description").t = "str"
        /\ has("hints") /\ v("hints").t = "list"
        /\ has("version") => IsStrOf(v("version"), 1, 8)
        /\ \A k \in {"organization", "pkg_name"} :
              has(k) => IsStrOf(v(k), 1, 32)
        /\ has("pkg_description") => IsStrOf(v("pkg_description"), pkgMin, 256)
        /\ \A k \in {"tags", "pkg_dependencies", "pip_requirements"} :
              has(k) => v(k).t = "list"
        /\ DOMAIN d.items \subseteq
              {"author", "score", "name", "description", "category", "hints",
               "version", "tags", "organization", "pkg_description",
               "pkg_name", "pkg_dependencies", "pip_requirements"}

\* C5 as stated: problem_schema accepts a mapping exactly when it satisfies
\* the ProblemSpec data model with pkg_description any string of at most
\* 256 characters.
C5_AsStated ==
    (loadCall.fn = "get_problem" /\ file.ok /\ file.value.t = "dict") =>
        ((loadCall.exc = "none") <=> ProblemSpecHolds(file.value, 0))

\* C5: problem_schema accepts a mapping exactly when it satisfies the
\* ProblemSpec data model with pkg_description, when present, a string of 1
\* to 256 characters; get_problem then returns the mapping itself, and
\* raises FatalException otherwise.
C5_ProblemSchema ==
    (loadCall.fn = "get_problem" /\ file.ok /\ file.value.t = "dict") =>
        IF ProblemSpecHolds(file.value, 1)
        THEN loadCall.exc = "none" /\ loadCall.ret = file.value
        ELSE loadCall.exc = "FatalException"

\* get_problem has rejected a problem whose only fault is an empty
\* pkg_description.
C5_Witness ==
    /\ loadCall.fn = "get_problem"
    /\ file.ok
    /\ file.value = DictPut(ProblemFull, "pkg_description", JStr(0))
    /\ loadCall.exc = "FatalException"

\* ---- the file operations (SpecFile) ----

\* Nothing at or below path p differs between the trees f and g.
SameBelow(f, g, p) == \A q \in AllPaths : IsPrefix(p, q) => f[q] = g[q]

\* C8: full_copy between two existing directories leaves a destination
\* subdirectory that shares its name with a source subdirectory untouched,
\* copies every source file not ignored to the destination under the same
\* name (over any file of that name), and changes nothing at the
\* destination for the ignored names.
C8_FullCopy ==
    (/\ fsCall.op = "full_copy"
     /\ fsCall.source # fsCall.destination
     /\ isdir(fs0, fsCall.source)
     /\ isdir(fs0, fsCall.destination)) =>
        \A g \in FsNames :
            LET source_item      == fsCall.source \o <<g>>
                destination_item == fsCall.destination \o <<g>>
            IN  /\ (isdir(fs0, source_item) /\ isdir(fs0, destination_item)) =>
                      SameBelow(fs, fs0, destination_item)
                /\ (isfile(fs0, source_item) /\ g \notin fsCall.ignore) =>
                      fs[destination_item] = fs0[source_item]
                /\ g \in fsCall.ignore =>
                      SameBelow(fs, fs0, destination_item)

\* The path move computes for the moved entry.
NewPath == fsCall.destination \o <<Last(fsCall.source)>>

\* C9: move with clobber=True, called with an existing source while a file
\* exists at destination_dir/<last segment of source>, succeeds and leaves
\* the source's content at that path; with clobber=False a move that fails
\* has deleted nothing.
C9_MoveClobber ==
    /\ (/\ fsCall.op = "move"
        /\ fsCall.clobber
        /\ exists(fs0, fsCall.source)
        /\ isfile(fs0, NewPath)) =>
           /\ fsCall.exc = "none"
           /\ fs[NewPath] = fs0[fsCall.source]
    /\ (fsCall.op = "move" /\ ~fsCall.clobber /\ fsCall.exc # "none") =>
           fs = fs0

\* C10: a move with clobber=True that ends in an error leaves the file tree
\* as it was before the call.
C10_FailedMoveChangesNothing ==
    (fsCall.op = "move" /\ fsCall.clobber /\ fsCall.exc # "none") => fs = fs0

====
